---- MODULE Spec2Model ----
(***************************************************************************)
(* Model of Predictor.predict (src/predict.py): the orchestration of one   *)
(* LoRA fine-tuning invocation.  An invocation builds the token map,       *)
(* calls the dataset preprocessor, resolves the SDXL weights cache,        *)
(* resets the output directory, calls the training routine and returns    *)
(* the artifact path.  The filesystem (weights cache, output directory)    *)
(* is the only state shared between invocations.                           *)
(***************************************************************************)
EXTENDS Integers, Sequences, FiniteSets, TLC

\* ------------------------------------------------------------------ bounds

\* Longest trigger string enumerated as token_string.
MaxLen == 3
\* Number of invocations of predict in one behaviour.
MaxRuns == 3

\* ------------------------------------------------------------- constants

OUTPUT_DIR == "training_out"

\* The two workers that may call predict.  Only worker 1 is used when
\* invocations are made one at a time.
Procs == {1, 2}

\* Characters a trigger string is built from: a letter, the two delimiters
\* the token map parser splits on, and a digit.
Alphabet == {"T", ":", ",", "2"}

Strings == UNION {[1..k -> Alphabet] : k \in 0..MaxLen}

\* default="TOK" of token_string, as a one-letter string of the alphabet.
DefaultToken == <<"T">>

\* choices=[...] of lr_scheduler.
LrSchedulerChoices == {"constant", "linear"}

\* choices=[...] of input_images_filetype.
FiletypeChoices == {"zip", "tar", "infer"}

\* Values a caller may supply, inside and outside the declared choices.
LrSchedulerInputs == {"constant", "linear", "cosine"}
FiletypeInputs == {"zip", "tar", "infer", "rar"}

\* The argument bundles enumerated: every trigger string with the default
\* scheduler and filetype, and every scheduler/filetype pair with the
\* default trigger string.  The other hyperparameters are passed through
\* to the collaborators unread and are left out.
FullInputs ==
    {[token_string |-> s, lr_scheduler |-> "constant",
      input_images_filetype |-> "infer"] : s \in Strings}
    \cup
    {[token_string |-> DefaultToken, lr_scheduler |-> l,
      input_images_filetype |-> f] :
        l \in LrSchedulerInputs, f \in FiletypeInputs}

DefaultInputs ==
    {[token_string |-> DefaultToken, lr_scheduler |-> "constant",
      input_images_filetype |-> "infer"]}

NoArgs ==
    [token_string |-> <<>>, lr_scheduler |-> "none",
     input_images_filetype |-> "none"]

NoPath == <<>>

\* ------------------------------------------------------ token map builder

\* str.split(sep) for a one-character separator: the pieces between the
\* occurrences of sep, empty pieces included.
RECURSIVE Split(_, _)
Split(s, sep) ==
    IF \A i \in 1..Len(s) : s[i] # sep
    THEN <<s>>
    ELSE LET i == CHOOSE j \in 1..Len(s) :
                      s[j] = sep /\ \A k \in 1..(j - 1) : s[k] # sep
         IN <<SubSeq(s, 1, i - 1)>> \o Split(SubSeq(s, i + 1, Len(s)), sep)

Digit ==
    ("0" :> 0) @@ ("1" :> 1) @@ ("2" :> 2) @@ ("3" :> 3) @@ ("4" :> 4) @@
    ("5" :> 5) @@ ("6" :> 6) @@ ("7" :> 7) @@ ("8" :> 8) @@ ("9" :> 9)

RECURSIVE DecimalValue(_)
DecimalValue(s) ==
    IF s = <<>> THEN 0
    ELSE 10 * DecimalValue(SubSeq(s, 1, Len(s) - 1)) + Digit[s[Len(s)]]

\* int(s) on strings of the alphabet: a non-empty string of digits is its
\* decimal value, anything else raises ValueError.
ParseInt(s) ==
    IF s # <<>> /\ \A i \in 1..Len(s) : s[i] \in DOMAIN Digit
    THEN [ok |-> TRUE, val |-> DecimalValue(s)]
    ELSE [ok |-> FALSE, val |-> 0]

\* f"<s{i}>"
Placeholder(i) == <<"s", i>>

\* token_dict[key] = value: a dict is a set of <<key, value>> pairs with
\* one pair per key.
DictSet(dict, key, value) ==
    {kv \in dict : kv[1] # key} \cup {<<key, value>>}

\* The loop over inserting_list_tokens, from entry i on.
RECURSIVE TokenLoop(_, _, _, _, _)
TokenLoop(tokens, i, dict, running_tok_cnt, lst) ==
    IF i > Len(tokens)
    THEN [err |-> "none", token_dict |-> dict, all_token_lists |-> lst]
    ELSE
      LET parts == Split(tokens[i], ":") IN
      IF Len(parts) < 2
      THEN [err |-> "IndexError", token_dict |-> dict, all_token_lists |-> lst]
      ELSE
        LET n_tok == ParseInt(parts[2]) IN
        IF ~n_tok.ok
        THEN [err |-> "ValueError", token_dict |-> dict,
              all_token_lists |-> lst]
        ELSE
          LET new == [j \in 1..n_tok.val |->
                         Placeholder((j - 1) + running_tok_cnt)]
          IN TokenLoop(tokens, i + 1, DictSet(dict, parts[1], new),
                       running_tok_cnt + n_tok.val, lst \o new)

\* token_map = token_string + ":2", split on "," and parsed entry by entry.
BuildTokenMap(token_string) ==
    LET token_map == token_string \o <<":", "2">>
        inserting_list_tokens == Split(token_map, ",")
    IN TokenLoop(inserting_list_tokens, 1, {}, 0, <<>>)

\* ------------------------------------------------------------------ state

VARIABLES
    concurrent,      \* whether invocations may overlap
    nruns,           \* invocations started so far
    cacheExists,     \* os.path.exists(SDXL_MODEL_CACHE)
    outExists,       \* os.path.exists(OUTPUT_DIR)
    outFiles,        \* files under OUTPUT_DIR: [name, run, size]
    written,         \* runs whose training routine wrote under OUTPUT_DIR
    okDownloads,     \* download_weights calls that returned normally
    pc,              \* each worker's position in predict
    run,             \* each worker's current (or last) invocation number
    args,            \* its arguments
    token_dict,      \* its token_dict
    all_token_lists, \* its all_token_lists
    log,             \* the steps it has executed, in order
    cacheSeen,       \* what line 202 saw: "unchecked", "present", "absent"
    downloads,       \* its calls of download_weights
    failed,          \* the step in which something failed, or "none"
    error,           \* what was raised there
    outcome,         \* "none", "running", "rejected", "error", "returned"
    retPath          \* the path returned to the caller

fs == <<cacheExists, outExists, outFiles, written, okDownloads>>
locals == <<run, args, token_dict, all_token_lists, cacheSeen, downloads>>
vars == <<concurrent, nruns, cacheExists, outExists, outFiles, written,
          okDownloads, pc, run, args, token_dict, all_token_lists, log,
          cacheSeen, downloads, failed, error, outcome, retPath>>

\* ------------------------------------------------------------- filesystem

File(name, r, size) == [name |-> name, run |-> r, size |-> size]

\* Creating or truncating the file `name` under OUTPUT_DIR.
WriteFile(files, name, r, size) ==
    {f \in files : f.name # name} \cup {File(name, r, size)}

\* Path(f"{OUTPUT_DIR}/lora.safetensors")
ArtifactPath == <<OUTPUT_DIR, "lora.safetensors">>

FileNonEmptyAt(path) ==
    /\ path # NoPath
    /\ path[1] = OUTPUT_DIR
    /\ outExists
    /\ \E f \in outFiles : f.name = path[2] /\ f.size > 0

\* ---------------------------------------------------------- control flow

\* input_images_filetype declared without choices.
AcceptedAnyFiletype(a) == a.lr_scheduler \in LrSchedulerChoices

\* Input(choices=[...]) of lr_scheduler and input_images_filetype: a value
\* outside the declared choices is refused before the body of predict runs.
Accepted(a) ==
    /\ a.lr_scheduler \in LrSchedulerChoices
    /\ a.input_images_filetype \in FiletypeChoices

AfterTokenMap == "preprocess"
AfterPreprocessSkipsCache == "out_check"
AfterPreprocess == "cache_check"
AfterCacheSkipsReset == "main"
AfterCache == "out_check"
AfterReset == "main"
AfterMain == "return"

NeedsDownloadAlways == TRUE
\* if not os.path.exists(SDXL_MODEL_CACHE)
NeedsDownload == ~cacheExists

Logged(p, step) == log' = [log EXCEPT ![p] = Append(@, step)]

\* The step completes and control moves on.
Proceed(p, next) ==
    /\ pc' = [pc EXCEPT ![p] = next]
    /\ UNCHANGED <<outcome, failed, error>>

\* An exception leaves predict: nothing catches it.
Raise(p, step, kind) ==
    /\ pc' = [pc EXCEPT ![p] = "idle"]
    /\ outcome' = [outcome EXCEPT ![p] = "error"]
    /\ failed' = [failed EXCEPT ![p] = step]
    /\ error' = [error EXCEPT ![p] = kind]

\* ---------------------------------------------------------------- actions

InitLocals ==
    /\ nruns = 0
    /\ written = {}
    /\ okDownloads = 0
    /\ pc = [p \in Procs |-> "idle"]
    /\ run = [p \in Procs |-> 0]
    /\ args = [p \in Procs |-> NoArgs]
    /\ token_dict = [p \in Procs |-> {}]
    /\ all_token_lists = [p \in Procs |-> <<>>]
    /\ log = [p \in Procs |-> <<>>]
    /\ cacheSeen = [p \in Procs |-> "unchecked"]
    /\ downloads = [p \in Procs |-> 0]
    /\ failed = [p \in Procs |-> "none"]
    /\ error = [p \in Procs |-> "none"]
    /\ outcome = [p \in Procs |-> "none"]
    /\ retPath = [p \in Procs |-> NoPath]

\* The filesystem a process may start with: the cache downloaded or not,
\* the output directory absent, empty, or holding an older artifact.
InitFs ==
    /\ cacheExists \in BOOLEAN
    /\ outExists \in BOOLEAN
    /\ outFiles \in IF outExists
                    THEN {{}, {File("lora.safetensors", 0, 1)}}
                    ELSE {{}}

Init == concurrent = FALSE /\ InitFs /\ InitLocals

InitConc == concurrent \in BOOLEAN /\ InitFs /\ InitLocals

\* A caller invokes predict.  The declared choices are checked on the
\* arguments before the body runs.
Call(p) ==
    /\ pc[p] = "idle"
    /\ nruns < MaxRuns
    /\ concurrent \/ p = 1
    /\ \E a \in (IF concurrent THEN DefaultInputs ELSE FullInputs) :
         /\ args' = [args EXCEPT ![p] = a]
         /\ IF Accepted(a)
            THEN /\ pc' = [pc EXCEPT ![p] = "token_map"]
                 /\ outcome' = [outcome EXCEPT ![p] = "running"]
            ELSE /\ pc' = [pc EXCEPT ![p] = "idle"]
                 /\ outcome' = [outcome EXCEPT ![p] = "rejected"]
    /\ nruns' = nruns + 1
    /\ run' = [run EXCEPT ![p] = nruns + 1]
    /\ token_dict' = [token_dict EXCEPT ![p] = {}]
    /\ all_token_lists' = [all_token_lists EXCEPT ![p] = <<>>]
    /\ log' = [log EXCEPT ![p] = <<>>]
    /\ cacheSeen' = [cacheSeen EXCEPT ![p] = "unchecked"]
    /\ downloads' = [downloads EXCEPT ![p] = 0]
    /\ failed' = [failed EXCEPT ![p] = "none"]
    /\ error' = [error EXCEPT ![p] = "none"]
    /\ retPath' = [retPath EXCEPT ![p] = NoPath]
    /\ UNCHANGED <<concurrent, fs>>

\* Lines 172-188.
TokenMap(p) ==
    /\ pc[p] = "token_map"
    /\ Logged(p, "token_map")
    /\ LET r == BuildTokenMap(args[p].token_string) IN
         IF r.err = "none"
         THEN /\ token_dict' = [token_dict EXCEPT ![p] = r.token_dict]
              /\ all_token_lists' =
                     [all_token_lists EXCEPT ![p] = r.all_token_lists]
              /\ Proceed(p, AfterTokenMap)
         ELSE /\ Raise(p, "token_map", r.err)
              /\ UNCHANGED <<token_dict, all_token_lists>>
    /\ UNCHANGED <<concurrent, nruns, fs, run, args, cacheSeen, downloads,
                   retPath>>

\* Lines 190-200: the dataset preprocessor returns input_dir or raises.
\* It writes under its own directory, never under OUTPUT_DIR.
Preprocess(p) ==
    /\ pc[p] = "preprocess"
    /\ Logged(p, "preprocess")
    /\ \E ok \in BOOLEAN :
         IF ok THEN Proceed(p, AfterPreprocess)
         ELSE Raise(p, "preprocess", "PreprocessError")
    /\ UNCHANGED <<concurrent, nruns, fs, locals, retPath>>

\* Line 202.
CheckCache(p) ==
    /\ pc[p] = "cache_check"
    /\ Logged(p, "cache_check")
    /\ cacheSeen' = [cacheSeen EXCEPT
                        ![p] = IF cacheExists THEN "present" ELSE "absent"]
    /\ Proceed(p, IF NeedsDownload THEN "download" ELSE AfterCache)
    /\ UNCHANGED <<concurrent, nruns, fs, run, args, token_dict,
                   all_token_lists, downloads, retPath>>

\* check_call ignoring pget's exit status.
DownloadFailureIgnored(p) ==
    /\ pc' = [pc EXCEPT ![p] = AfterCache]
    /\ failed' = [failed EXCEPT ![p] = "download"]
    /\ error' = [error EXCEPT ![p] = "CalledProcessError"]
    /\ UNCHANGED outcome

\* subprocess.check_call raises when pget exits non-zero.
DownloadFailure(p) == Raise(p, "download", "CalledProcessError")

\* Line 203 and download_weights: pget fetches and extracts the archive to
\* the cache path.  When it fails the path may or may not have been created.
DownloadWeights(p) ==
    /\ pc[p] = "download"
    /\ Logged(p, "download")
    /\ downloads' = [downloads EXCEPT ![p] = @ + 1]
    /\ \E ok \in BOOLEAN :
         IF ok
         THEN /\ cacheExists' = TRUE
              /\ okDownloads' = okDownloads + 1
              /\ Proceed(p, AfterCache)
         ELSE /\ cacheExists' \in {cacheExists, TRUE}
              /\ UNCHANGED okDownloads
              /\ DownloadFailure(p)
    /\ UNCHANGED <<concurrent, nruns, outExists, outFiles, written, run, args,
                   token_dict, all_token_lists, cacheSeen, retPath>>

\* if not os.path.exists(OUTPUT_DIR): os.makedirs(OUTPUT_DIR)
CheckOutputKeepsDir(p) ==
    /\ pc[p] = "out_check"
    /\ Logged(p, "out_check")
    /\ Proceed(p, IF outExists THEN AfterReset ELSE "makedirs")
    /\ UNCHANGED <<concurrent, nruns, fs, locals, retPath>>

\* shutil.rmtree(OUTPUT_DIR) without the check of line 204.
CheckOutputAlwaysRmtree(p) ==
    /\ pc[p] = "out_check"
    /\ Logged(p, "out_check")
    /\ Proceed(p, "rmtree")
    /\ UNCHANGED <<concurrent, nruns, fs, locals, retPath>>

\* Line 204.
CheckOutput(p) ==
    /\ pc[p] = "out_check"
    /\ Logged(p, "out_check")
    /\ Proceed(p, IF outExists THEN "rmtree" ELSE "makedirs")
    /\ UNCHANGED <<concurrent, nruns, fs, locals, retPath>>

\* Line 205: shutil.rmtree raises when the directory is gone, and may fail
\* part way through for a reason of the environment.
Rmtree(p) ==
    /\ pc[p] = "rmtree"
    /\ Logged(p, "rmtree")
    /\ IF ~outExists
       THEN /\ Raise(p, "rmtree", "FileNotFoundError")
            /\ UNCHANGED <<outExists, outFiles>>
       ELSE \E ok \in BOOLEAN :
              IF ok
              THEN /\ outExists' = FALSE
                   /\ outFiles' = {}
                   /\ Proceed(p, "makedirs")
              ELSE /\ outFiles' \in SUBSET outFiles
                   /\ UNCHANGED outExists
                   /\ Raise(p, "rmtree", "OSError")
    /\ UNCHANGED <<concurrent, nruns, cacheExists, written, okDownloads,
                   locals, retPath>>

\* Line 206: os.makedirs raises when the directory exists.
Makedirs(p) ==
    /\ pc[p] = "makedirs"
    /\ Logged(p, "makedirs")
    /\ IF outExists
       THEN /\ Raise(p, "makedirs", "FileExistsError")
            /\ UNCHANGED <<outExists, outFiles>>
       ELSE \E ok \in BOOLEAN :
              IF ok
              THEN /\ outExists' = TRUE
                   /\ outFiles' = {}
                   /\ Proceed(p, AfterReset)
              ELSE /\ UNCHANGED <<outExists, outFiles>>
                   /\ Raise(p, "makedirs", "OSError")
    /\ UNCHANGED <<concurrent, nruns, cacheExists, written, okDownloads,
                   locals, retPath>>

\* Lines 208-234, first part: the training routine starts and writes its
\* intermediate files under output_dir, or raises.
TrainStart(p) ==
    /\ pc[p] = "main"
    /\ Logged(p, "main")
    /\ \E ok \in BOOLEAN :
         IF ok /\ outExists
         THEN /\ outFiles' = WriteFile(outFiles, "checkpoint", run[p], 1)
              /\ written' = written \cup {run[p]}
              /\ Proceed(p, "training")
         ELSE /\ UNCHANGED <<outFiles, written>>
              /\ Raise(p, "main", "TrainingError")
    /\ UNCHANGED <<concurrent, nruns, cacheExists, outExists, okDownloads,
                   locals, retPath>>

\* Lines 208-234, second part: the training routine writes the artifact
\* and returns, or raises, possibly leaving a truncated artifact.
TrainFinish(p) ==
    /\ pc[p] = "training"
    /\ \E ok \in BOOLEAN :
         IF ok /\ outExists
         THEN /\ outFiles' =
                     WriteFile(outFiles, "lora.safetensors", run[p], 1)
              /\ Proceed(p, AfterMain)
         ELSE /\ \E truncated \in BOOLEAN :
                   outFiles' =
                       IF truncated /\ outExists
                       THEN WriteFile(outFiles, "lora.safetensors", run[p], 0)
                       ELSE outFiles
              /\ Raise(p, "main", "TrainingError")
    /\ UNCHANGED <<concurrent, nruns, cacheExists, outExists, written,
                   okDownloads, locals, log, retPath>>

\* The artifact returned under another file name.
ReturnOtherFile(p) ==
    /\ pc[p] = "return"
    /\ Logged(p, "return")
    /\ retPath' = [retPath EXCEPT ![p] = <<OUTPUT_DIR, "lora.pt">>]
    /\ outcome' = [outcome EXCEPT ![p] = "returned"]
    /\ pc' = [pc EXCEPT ![p] = "idle"]
    /\ UNCHANGED <<concurrent, nruns, fs, locals, failed, error>>

\* Line 235.
Return(p) ==
    /\ pc[p] = "return"
    /\ Logged(p, "return")
    /\ retPath' = [retPath EXCEPT ![p] = ArtifactPath]
    /\ outcome' = [outcome EXCEPT ![p] = "returned"]
    /\ pc' = [pc EXCEPT ![p] = "idle"]
    /\ UNCHANGED <<concurrent, nruns, fs, locals, failed, error>>

Next ==
    \E p \in Procs :
        \/ Call(p)
        \/ TokenMap(p)
        \/ Preprocess(p)
        \/ CheckCache(p)
        \/ DownloadWeights(p)
        \/ CheckOutput(p)
        \/ Rmtree(p)
        \/ Makedirs(p)
        \/ TrainStart(p)
        \/ TrainFinish(p)
        \/ Return(p)

\* Invocations one at a time.
Spec == Init /\ [][Next]_vars

\* Invocations one at a time, or overlapping.
SpecConc == InitConc /\ [][Next]_vars

\* ----------------------------------------------------------- properties

Range(s) == {s[i] : i \in 1..Len(s)}

\* Step a occurs in the log before position i.
Earlier(l, a, i) == \E j \in 1..(i - 1) : l[j] = a

TwoPlaceholders == <<Placeholder(0), Placeholder(1)>>

\* The trigger strings that hold neither delimiter.
DelimiterFree(s) == \A i \in 1..Len(s) : s[i] \notin {":", ","}

\* The token map builder has run in worker p's invocation.
TokenMapDone(p) ==
    run[p] > 0 /\ Accepted(args[p]) /\ pc[p] # "token_map"

\* C1: for every non-empty trigger string S, the delimiters ':' and ','
\* included, the builder yields token_dict = {S: "<s0><s1>"} and
\* all_token_lists = ["<s0>", "<s1>"].
C1_TokenMapForEveryString ==
    \A p \in Procs :
        (TokenMapDone(p) /\ args[p].token_string # <<>>) =>
            /\ token_dict[p] = {<<args[p].token_string, TwoPlaceholders>>}
            /\ all_token_lists[p] = TwoPlaceholders

\* The same for the trigger strings that hold no delimiter (not a claim of
\* the specification; it delimits what C1 gets wrong).
TokenMapForDelimiterFreeStrings ==
    \A p \in Procs :
        (TokenMapDone(p) /\ DelimiterFree(args[p].token_string)) =>
            /\ token_dict[p] = {<<args[p].token_string, TwoPlaceholders>>}
            /\ all_token_lists[p] = TwoPlaceholders

\* C2: an invocation calls download_weights zero times when the cache
\* directory exists at line 202 and exactly once when it does not; after a
\* download that succeeds the directory exists, so over the whole sequence
\* of invocations at most one download succeeds.
C2_DownloadOnlyWhenCacheMissing ==
    /\ \A p \in Procs :
        /\ cacheSeen[p] \in {"unchecked", "present"} => downloads[p] = 0
        /\ (cacheSeen[p] = "absent" /\ pc[p] # "download") => downloads[p] = 1
        /\ (cacheSeen[p] = "absent" /\ pc[p] = "download") => downloads[p] = 0
        /\ (downloads[p] = 1 /\ failed[p] # "download") => cacheExists
    /\ okDownloads <= 1
    /\ okDownloads = 1 => cacheExists

\* A later invocation finds the cache an earlier one downloaded.
C2_Witness ==
    \E p \in Procs :
        /\ run[p] >= 2
        /\ cacheSeen[p] = "present"
        /\ downloads[p] = 0
        /\ okDownloads = 1

\* C3: when an invocation calls the training routine the output directory
\* exists and is empty, and from then on every file under it was written
\* by that invocation: nothing of an earlier run is left.
C3_TrainingStartsOnEmptyDir ==
    \A p \in Procs :
        /\ pc[p] = "main" => (outExists /\ outFiles = {})
        /\ (run[p] = nruns /\ "main" \in Range(log[p])) =>
               \A f \in outFiles : f.run = run[p]

\* The second invocation is about to call the training routine, after the
\* first one wrote under the output directory and the reset removed it.
C3_Witness ==
    \E p \in Procs :
        /\ run[p] = 2
        /\ pc[p] = "main"
        /\ 1 \in written
        /\ "rmtree" \in Range(log[p])

\* C4 as stated: the reset comes before the dataset preprocessor and the
\* weights download, so once an invocation has reached them no file of an
\* earlier invocation is left.
C4_ResetAtStart ==
    \A p \in Procs :
        /\ \A i \in 1..Len(log[p]) :
               log[p][i] \in {"preprocess", "download"} =>
                   Earlier(log[p], "makedirs", i)
        /\ (run[p] = nruns /\ "preprocess" \in Range(log[p])) =>
               \A f \in outFiles : f.run = run[p]

\* C4 as amended: the reset comes after the dataset preprocessor and the
\* cache check and before the training routine, so once an invocation has
\* recreated the directory no file of an earlier invocation is left.
C4_ResetBeforeTraining ==
    \A p \in Procs :
        /\ \A i \in 1..Len(log[p]) :
               /\ log[p][i] = "main" => Earlier(log[p], "makedirs", i)
               /\ log[p][i] \in {"rmtree", "makedirs"} =>
                      /\ Earlier(log[p], "preprocess", i)
                      /\ Earlier(log[p], "cache_check", i)
        /\ (run[p] = nruns /\ "makedirs" \in Range(log[p])) =>
               \A f \in outFiles : f.run = run[p]

\* The second invocation has reset the directory the first one wrote to
\* and is training.
C4_Witness ==
    \E p \in Procs :
        /\ run[p] = 2
        /\ 1 \in written
        /\ "rmtree" \in Range(log[p])
        /\ "makedirs" \in Range(log[p])
        /\ pc[p] = "training"

\* The steps in the order predict takes them.
StepOrder ==
    {<<"token_map", "preprocess">>, <<"preprocess", "cache_check">>,
     <<"cache_check", "download">>, <<"cache_check", "out_check">>,
     <<"download", "out_check">>, <<"out_check", "rmtree">>,
     <<"out_check", "makedirs">>, <<"rmtree", "makedirs">>,
     <<"makedirs", "main">>, <<"main", "return">>}

\* C5: the steps of an invocation occur in the order token map,
\* preprocessor, weights cache, output directory reset, training routine,
\* return; each at most once, and the step about to run follows the last
\* one executed.
C5_LinearControlFlow ==
    \A p \in Procs :
        /\ log[p] # <<>> => log[p][1] = "token_map"
        /\ \A i \in 2..Len(log[p]) : <<log[p][i - 1], log[p][i]>> \in StepOrder
        /\ \A i, j \in 1..Len(log[p]) : i # j => log[p][i] # log[p][j]
        /\ pc[p] \notin {"idle", "training"} =>
               IF log[p] = <<>> THEN pc[p] = "token_map"
               ELSE <<log[p][Len(log[p])], pc[p]>> \in StepOrder

\* An invocation that took every step, the download and the rmtree
\* included, and returned.
C5_Witness ==
    \E p \in Procs :
        /\ outcome[p] = "returned"
        /\ log[p] = <<"token_map", "preprocess", "cache_check", "download",
                      "out_check", "rmtree", "makedirs", "main", "return">>

\* C6: a failure in any step aborts the invocation: the error reaches the
\* caller, the failing step is the last one executed and no path is
\* returned.
C6_FailureAborts ==
    \A p \in Procs :
        failed[p] # "none" =>
            /\ pc[p] = "idle"
            /\ outcome[p] = "error"
            /\ retPath[p] = NoPath
            /\ log[p] # <<>>
            /\ log[p][Len(log[p])] = failed[p]
            /\ "return" \notin Range(log[p])

\* The weights download failed and the invocation ended there.
C6_Witness ==
    \E p \in Procs :
        /\ failed[p] = "download"
        /\ outcome[p] = "error"
        /\ log[p] = <<"token_map", "preprocess", "cache_check", "download">>

\* C7: when predict has returned, the path is training_out/lora.safetensors
\* and the file there exists and is not empty.
C7_ReturnedArtifactExists ==
    \A p \in Procs :
        (outcome[p] = "returned" /\ run[p] = nruns) =>
            /\ retPath[p] = <<"training_out", "lora.safetensors">>
            /\ FileNonEmptyAt(retPath[p])

\* The second invocation returned the artifact it wrote.
C7_Witness ==
    \E p \in Procs :
        /\ outcome[p] = "returned"
        /\ run[p] = 2
        /\ File("lora.safetensors", 2, 1) \in outFiles

\* C8: an lr_scheduler outside {constant, linear} or an
\* input_images_filetype outside {zip, tar, infer} ends the invocation in an
\* error before any step that does I/O.
C8_UnsupportedChoiceRejected ==
    \A p \in Procs :
        (/\ run[p] > 0
         /\ \/ args[p].lr_scheduler \notin {"constant", "linear"}
            \/ args[p].input_images_filetype \notin {"zip", "tar", "infer"}) =>
            /\ pc[p] = "idle"
            /\ outcome[p] = "rejected"
            /\ retPath[p] = NoPath
            /\ log[p] = <<>>
            /\ downloads[p] = 0

\* An invocation with a valid scheduler and an unsupported filetype was
\* rejected.
C8_Witness ==
    \E p \in Procs :
        /\ outcome[p] = "rejected"
        /\ args[p].lr_scheduler = "linear"
        /\ args[p].input_images_filetype = "rar"

\* C9: an invocation with token_string = "" ends in an error without
\* reaching the dataset preprocessor or any later step.
C9_EmptyTokenFailsFast ==
    \A p \in Procs :
        (run[p] > 0 /\ args[p].token_string = <<>>) =>
            /\ pc[p] \in {"token_map", "idle"}
            /\ Range(log[p]) \subseteq {"token_map"}
            /\ pc[p] = "idle" => outcome[p] \in {"error", "rejected"}

\* The reset of one invocation has harmed another: the training routine
\* has returned and the artifact is not there, the directory or the
\* intermediate file of an invocation in training is gone, or the reset
\* itself failed on a directory that vanished or reappeared.
RaceState ==
    \E p \in Procs :
        \/ pc[p] = "return" /\ ~FileNonEmptyAt(ArtifactPath)
        \/ /\ pc[p] \in {"training", "return"}
           /\ ~(outExists /\ File("checkpoint", run[p], 1) \in outFiles)
        \/ failed[p] = "rmtree" /\ error[p] = "FileNotFoundError"
        \/ failed[p] = "makedirs" /\ error[p] = "FileExistsError"

\* C10: with one invocation at a time the output directory reset never
\* harms an invocation; the harm is reachable only with overlapping
\* invocations.
C10_NoRaceWhenSequential == ~concurrent => ~RaceState

\* Overlapping invocations: one is about to return the artifact path after
\* the other's reset deleted the artifact.
C10_Witness ==
    /\ concurrent
    /\ \E p, q \in Procs :
        /\ p # q
        /\ pc[p] = "return"
        /\ ~FileNonEmptyAt(ArtifactPath)
        /\ "rmtree" \in Range(log[q])

\* Overlapping invocations: the reset itself fails.
RaceInsideReset ==
    /\ concurrent
    /\ \E p \in Procs :
        \/ failed[p] = "rmtree" /\ error[p] = "FileNotFoundError"
        \/ failed[p] = "makedirs" /\ error[p] = "FileExistsError"

====
